---- MODULE Spec2Model ----
(***************************************************************************)
(* Model of the realtime session bridge (services/realtimeHandler.js), the *)
(* conversation registry (services/conversationManager.js) and the routes  *)
(* that end conversations (routes/exotel.js, server.js).                   *)
(*                                                                         *)
(* Node runs every handler to its first await on a pending I/O promise;    *)
(* the rest of the handler is a later step.  An await on a promise that is *)
(* settled without I/O resumes from the microtask queue, before any other  *)
(* socket event or HTTP request is delivered, so such a handler is one     *)
(* step.                                                                   *)
(***************************************************************************)
EXTENDS Bags, FiniteSets, Integers, Sequences, TLC

\* ---------------------------------------------------------------- bounds
MaxConvs == 2
MaxStops == 2
MaxHttpEnds == 1
MaxSweeps == 1
MaxMedia == 2
MaxDeltas == 2
MaxFnCalls == 2
MaxNow == 31
MaxTranscripts == 2
MaxProxyMessages == 2

\* ---------------------------------------------------------------- values
NULL == "null"
UNDEF == "undefined"
CallSids == {"C1"}
SessionIds == {"W1"}

\* uuidv4(): the identifier generated for the i-th record
Uuid(i) == "uuid-" \o ToString(i)

Uuids == {Uuid(i) : i \in 1..MaxConvs}
\* the call identifier of a second bridge
OtherCallSid == "C2"
Keys == CallSids \cup SessionIds \cup Uuids \cup {NULL, UNDEF, OtherCallSid}
StreamSids == {"S1", "", UNDEF}
StaleMinutes == 30

Truthy(v) == v \notin {NULL, UNDEF, ""}

VARIABLES
    dbEnabled,          \* isSupabaseEnabled()
    exotelCredentials,  \* EXOTEL_API_KEY && EXOTEL_API_TOKEN && EXOTEL_SID
    publicUrl,          \* PUBLIC_URL is set
    modelUrlValid,      \* new WebSocket(OPENAI_REALTIME_URL, ...) constructs a socket
    requestPhone,       \* the phoneNumber query parameter of the media stream URL
    now,                \* wall clock, minutes
    convs,              \* every Conversation object constructed so far
    activeConversations,\* the registry Map: key -> index into convs, 0 = no entry
    createTasks,        \* createConversation calls suspended in initialize()
    endTasks,           \* endConversation / Conversation.end calls suspended on the store
    phase,              \* "none" | "initializing" | "ready": progress of initialize()
    callSid, conversation, streamSid, isConnected,
    audioSent, audioReceived, audioSentToExotel,
    openaiWs,           \* readyState of the model socket, "NONE" before it is constructed
    exotelWs,           \* readyState of the telephony socket
    sentToOpenAI,       \* frames handed to openaiWs.send, with the readyState at that moment
    sentToExotel,       \* frames handed to exotelWs.send
    mediaArrivals,      \* inbound media events, with isConnected, the model socket's state,
                        \* the number of stop events handled, streamSid and whether a
                        \* function call was suspended on arrival
    deltaArrivals,      \* model audio deltas, with streamSid, the telephony socket's state
                        \* and whether a function call was suspended on arrival
    fcalls,             \* one entry per response.function_call_arguments.done event, with
                        \* its progress and whether the bridge was torn down on arrival
    transferLog,        \* call-control POSTs issued by execute*Transfer
    stops, httpEnds, sweeps, mediaIn, deltasIn,
    cleanupStarted, cleanupDone,
    returned,           \* the last management call whose value is observed: its name,
                        \* its argument, its rank among such calls, and what it returned
    request,            \* the last call of the function router or of the department
                        \* resolution: function, arguments, what the store holds
    result,             \* what that call returned
    closeCode,          \* the code the acceptor passed to ws.close, 0 = close not called
    startDelivered,     \* streamSid of the last start event the telephony peer delivered
    phoneNumber,        \* this.phoneNumber of the bridge
    startParams,        \* streamSid and customParameters of the last start event handled
    lastLogged,         \* the last event a handler only logged or skipped: its socket,
                        \* its kind, and the number of media events seen before it
    transcriptsIn,      \* transcript events delivered by the model socket, with the number
                        \* of message writes pending at the store on arrival
    messageWrites,      \* db.addConversationMessage calls the store has not answered
    other,              \* the instance fields of a second bridge, connected with OtherCallSid
    shutdown,           \* progress of the SIGTERM handler: the conversations listed by
                        \* getActiveConversations() and the session identifiers still to end
    proxy               \* one web-voice proxy: readyState of its client and model sockets,
                        \* and its messages with the destination's readyState on arrival

registryVars == <<convs, activeConversations, createTasks, endTasks>>
bridgeVars == <<phase, callSid, conversation, streamSid, isConnected,
                audioSent, audioReceived, audioSentToExotel, openaiWs, exotelWs>>
wireVars == <<sentToOpenAI, sentToExotel, mediaArrivals, deltaArrivals>>
fnVars == <<fcalls, transferLog>>
countVars == <<stops, httpEnds, sweeps, mediaIn, deltasIn, cleanupStarted, cleanupDone>>
envVars == <<dbEnabled, exotelCredentials, publicUrl, modelUrlValid, requestPhone>>
sessionVars == <<phoneNumber, startParams, lastLogged, transcriptsIn, messageWrites>>
apiVars == <<returned, request, result, closeCode, startDelivered, sessionVars, other,
            shutdown, proxy>>
vars == <<envVars, apiVars, now, registryVars, bridgeVars, wireVars, fnVars, countVars>>

\* ------------------------------------------------------- Conversation
\* new Conversation({callSid, sessionId, ...}), the i-th constructed; id is the
\* store's id, 0 = null; this.sessionId = sessionId || uuidv4()
NewConversation(cs, sessionId, i, t) ==
    [callSid |-> cs, sessionId |-> IF Truthy(sessionId) THEN sessionId ELSE Uuid(i),
     id |-> 0, startTime |-> t, ends |-> <<>>,
     functionCalls |-> <<>>, transfers |-> <<>>, emergencies |-> <<>>, messages |-> <<>>]

\* Conversation.end(status): one invocation; the store write happens only if this.id
ConversationEnd(c, status, by) ==
    [c EXCEPT !.ends = Append(@, [by |-> by, status |-> status, write |-> c.id # 0])]

\* Conversation.end suspends on the store exactly when it has a persisted id
EndSuspends(c) == c.id # 0

\* const key = callSid || sessionId
RegistryKey(cs, sessionId) == IF Truthy(cs) THEN cs ELSE sessionId

\* getConversation(identifier): activeConversations.get(identifier)
getConversation(identifier) == activeConversations[identifier]

Registered(i) == \E k \in Keys : activeConversations[k] = i

\* ------------------------------------------------------------- Init
InitState ==
    /\ now = 0
    /\ convs = <<>>
    /\ activeConversations = [k \in Keys |-> 0]
    /\ createTasks = EmptyBag
    /\ endTasks = EmptyBag
    /\ phase = "none"
    /\ callSid = NULL
    /\ conversation = 0
    /\ streamSid = NULL
    /\ isConnected = FALSE
    /\ audioSent = FALSE
    /\ audioReceived = FALSE
    /\ audioSentToExotel = FALSE
    /\ openaiWs = "NONE"
    /\ exotelWs = "NONE"
    /\ sentToOpenAI = <<>>
    /\ sentToExotel = <<>>
    /\ mediaArrivals = <<>>
    /\ deltaArrivals = <<>>
    /\ fcalls = <<>>
    /\ transferLog = <<>>
    /\ stops = 0
    /\ httpEnds = 0
    /\ sweeps = 0
    /\ mediaIn = 0
    /\ deltasIn = 0
    /\ cleanupStarted = 0
    /\ cleanupDone = 0
    /\ returned = [call |-> "none", identifier |-> NULL, n |-> 0, value |-> NULL, cleaned |-> 0]
    /\ request = [fn |-> "none"]
    /\ result = [kind |-> "none"]
    /\ closeCode = 0
    /\ startDelivered = "none"
    /\ phoneNumber = NULL
    /\ startParams = [sid |-> "none"]
    /\ lastLogged = [socket |-> "none", kind |-> "none", mediaIn |-> 0]
    /\ transcriptsIn = <<>>
    /\ messageWrites = 0
    /\ shutdown = [pc |-> "none", listed |-> {}, todo |-> {}]
    /\ proxy = [clientWs |-> "NONE", openaiWs |-> "NONE", messages |-> <<>>]
    /\ other = [phase |-> "none", conversation |-> 0, streamSid |-> NULL,
                openaiWs |-> "NONE", exotelWs |-> "NONE"]

\* ------------------------------------------------- Conversation Registry
\* createConversation up to `await conversation.initialize()`: the object is
\* constructed; without a store db.createConversation returns null at once
\* and the record is registered in the same step.
CreateConversationStart(cs, sessionId, by) ==
    LET i == Len(convs) + 1
        key == RegistryKey(cs, sessionId)
    IN /\ convs' = Append(convs, NewConversation(cs, sessionId, i, now))
       /\ IF dbEnabled
            THEN /\ createTasks' = createTasks (+) SetToBag({[conv |-> i, key |-> key, by |-> by]})
                 /\ UNCHANGED activeConversations
            ELSE /\ activeConversations' = [activeConversations EXCEPT ![key] = i]
                 /\ UNCHANGED createTasks

\* endConversation(identifier, status) up to `await conversation.end(status)`
EndConversationStart(identifier, status, by) ==
    LET i == getConversation(identifier) IN
    IF i = 0
      THEN UNCHANGED <<convs, activeConversations, endTasks>>
      ELSE /\ convs' = [convs EXCEPT ![i] = ConversationEnd(@, status, by)]
           /\ IF EndSuspends(convs[i])
                THEN /\ endTasks' = endTasks (+) SetToBag({[key |-> identifier, by |-> by]})
                     /\ UNCHANGED activeConversations
                ELSE /\ activeConversations' = [activeConversations EXCEPT ![identifier] = 0]
                     /\ UNCHANGED endTasks

\* TRUE when endConversation(identifier) returns without waiting for the store
EndReturnsNow(identifier) ==
    LET i == getConversation(identifier) IN i = 0 \/ ~EndSuspends(convs[i])

\* the store answers db.endConversation: the caller resumes after the await;
\* endConversation deletes the key, cleanup() returns, the sweep awaits nothing
EndConversationResume(t) ==
    /\ BagIn(t, endTasks)
    /\ endTasks' = endTasks (-) SetToBag({t})
    /\ activeConversations' =
         IF t.by = "sweep" THEN activeConversations
         ELSE [activeConversations EXCEPT ![t.key] = 0]
    /\ cleanupDone' = IF t.by = "cleanup" THEN cleanupDone + 1 ELSE cleanupDone
    /\ returned' = IF /\ t.by = "web-end"
                      /\ returned.call = "endConversation"
                      /\ returned.identifier = t.key
                      /\ returned.value = "pending"
                    THEN [returned EXCEPT !.value = "ended"]
                    ELSE returned
    /\ UNCHANGED <<proxy, shutdown, envVars, request, result, closeCode, startDelivered, sessionVars, other, now, convs,
                   createTasks, bridgeVars, wireVars, fnVars,
                   stops, httpEnds, sweeps, mediaIn, deltasIn, cleanupStarted>>

\* the staleness test with <= in place of <
StaleInclusive(c) == c.startTime <= now - StaleMinutes

\* conversation.startTime < thirtyMinutesAgo
Stale(c) == c.startTime < now - StaleMinutes

StaleKeys == {k \in Keys : activeConversations[k] # 0 /\ Stale(convs[activeConversations[k]])}

\* the loop of cleanupStaleConversations(): end('timeout') is not awaited, the
\* entry is deleted at once
SweepStale ==
    /\ convs' = [i \in DOMAIN convs |->
                   IF \E k \in StaleKeys : activeConversations[k] = i
                     THEN ConversationEnd(convs[i], "timeout", "sweep")
                     ELSE convs[i]]
    /\ activeConversations' = [k \in Keys |-> IF k \in StaleKeys THEN 0 ELSE activeConversations[k]]
    /\ endTasks' = endTasks (+)
         SetToBag({[key |-> k, by |-> "sweep"] :
                     k \in {x \in StaleKeys : EndSuspends(convs[activeConversations[x]])}})

\* setInterval(cleanupStaleConversations, ...): the count it returns is dropped
cleanupStaleConversations ==
    /\ sweeps < MaxSweeps
    /\ sweeps' = sweeps + 1
    /\ SweepStale
    /\ UNCHANGED <<envVars, apiVars, now, createTasks, bridgeVars, wireVars, fnVars,
                   stops, httpEnds, mediaIn, deltasIn, cleanupStarted, cleanupDone>>

\* a sweep timer that runs only while no bridge exists
SweepTimerWhenIdle ==
    /\ phase = "none"
    /\ SweepStale
    /\ UNCHANGED <<envVars, apiVars, now, createTasks, bridgeVars, wireVars, fnVars, countVars>>

\* setInterval(cleanupStaleConversations, 10 * 60 * 1000): the timer fires for as
\* long as the process runs
SweepTimer ==
    /\ SweepStale
    /\ UNCHANGED <<envVars, apiVars, now, createTasks, bridgeVars, wireVars, fnVars, countVars>>

\* POST /api/admin/cleanup: the response carries the count cleanupStaleConversations returns
AdminCleanup ==
    /\ sweeps < MaxSweeps
    /\ sweeps' = sweeps + 1
    /\ SweepStale
    /\ returned' = [call |-> "cleanupStaleConversations", identifier |-> NULL,
                    n |-> sweeps + 1, value |-> NULL, cleaned |-> Cardinality(StaleKeys)]
    /\ UNCHANGED <<proxy, shutdown, envVars, request, result, closeCode, startDelivered, sessionVars, other, now, createTasks,
                   bridgeVars, wireVars, fnVars,
                   stops, httpEnds, mediaIn, deltasIn, cleanupStarted, cleanupDone>>

\* time passes
Tick(d) ==
    /\ now + d <= MaxNow
    /\ now' = now + d
    /\ UNCHANGED <<envVars, apiVars, registryVars, bridgeVars, wireVars, fnVars, countVars>>

\* POST /exotel/incoming-call
IncomingCall(cs) ==
    /\ Len(convs) < MaxConvs
    /\ CreateConversationStart(cs, UNDEF, "incoming-call")
    /\ UNCHANGED <<envVars, apiVars, now, endTasks, bridgeVars, wireVars, fnVars, countVars>>

\* POST /exotel/call-status
CallStatus(cs, Status) ==
    /\ httpEnds < MaxHttpEnds
    /\ httpEnds' = httpEnds + 1
    /\ IF Status \in {"completed", "failed", "busy", "no-answer"} /\ getConversation(cs) # 0
         THEN EndConversationStart(cs, IF Status = "completed" THEN "completed" ELSE "failed",
                                   "call-status")
         ELSE UNCHANGED <<convs, activeConversations, endTasks>>
    /\ UNCHANGED <<envVars, apiVars, now, createTasks, bridgeVars, wireVars, fnVars,
                   stops, sweeps, mediaIn, deltasIn, cleanupStarted, cleanupDone>>

\* POST /exotel/cancel-call, once the provider has acknowledged the hang-up
CancelCall(cs) ==
    /\ httpEnds < MaxHttpEnds
    /\ exotelCredentials
    /\ httpEnds' = httpEnds + 1
    /\ EndConversationStart(cs, "cancelled", "cancel-call")
    /\ UNCHANGED <<envVars, apiVars, now, createTasks, bridgeVars, wireVars, fnVars,
                   stops, sweeps, mediaIn, deltasIn, cleanupStarted, cleanupDone>>

\* POST /api/web-voice/session: createConversation({sessionId: uuidv4(), ...});
\* the identifier is fresh
WebSession(sid) ==
    /\ Len(convs) < MaxConvs
    /\ \A i \in DOMAIN convs : convs[i].sessionId # sid
    /\ CreateConversationStart(UNDEF, sid, "web-session")
    /\ UNCHANGED <<envVars, apiVars, now, endTasks, bridgeVars, wireVars, fnVars, countVars>>

\* endConversation that answers "ended" for an identifier it has no entry for
EndConversationReturnNoLookup(i, suspends) ==
    IF i # 0 /\ suspends THEN "pending" ELSE "ended"

\* what endConversation has returned when the calling step is over: null for
\* an identifier without entry, else the value of conversation.end once it is there
EndConversationReturn(i, suspends) ==
    IF i = 0 THEN NULL
    ELSE IF suspends THEN "pending" ELSE "ended"

\* POST /api/web-voice/end with a non-empty session_id
WebEnd(session_id) ==
    LET i == getConversation(session_id) IN
    /\ httpEnds < MaxHttpEnds
    /\ httpEnds' = httpEnds + 1
    /\ Truthy(session_id)
    /\ EndConversationStart(session_id, "completed", "web-end")
    /\ returned' = [call |-> "endConversation", identifier |-> session_id, n |-> httpEnds + 1,
                    value |-> EndConversationReturn(i, i # 0 /\ EndSuspends(convs[i])),
                    cleaned |-> 0]
    /\ UNCHANGED <<proxy, shutdown, envVars, request, result, closeCode, startDelivered, sessionVars, other, now, createTasks,
                   bridgeVars, wireVars, fnVars,
                   stops, sweeps, mediaIn, deltasIn, cleanupStarted, cleanupDone>>

\* ------------------------------------------------------- Session Bridge
\* WebSocket.close(): a connecting or open socket starts closing, otherwise no effect
WsClose(rs) == IF rs \in {"CONNECTING", "OPEN"} THEN "CLOSING" ELSE rs

Frame(type, item, audio, call_id, rs) ==
    [type |-> type, item |-> item, audio |-> audio, call_id |-> call_id, rs |-> rs]

\* sendToOpenAI without the readyState test: sends on any constructed socket
sendToOpenAIAnyState(log, rs, type, item, audio, call_id) ==
    IF rs # "NONE"
      THEN Append(log, Frame(type, item, audio, call_id, rs))
      ELSE log

\* sendToOpenAI(message): the frame is handed to the socket only when it is OPEN
sendToOpenAI(log, rs, type, item, audio, call_id) ==
    IF rs # "NONE" /\ rs = "OPEN"
      THEN Append(log, Frame(type, item, audio, call_id, rs))
      ELSE log

\* a function call of the bridge is suspended in handleFunctionCall, on the
\* store or on the call-control request
Suspended == \E id \in DOMAIN fcalls : fcalls[id].pc \in {"dispatch", "transfer"}

\* sendAudioToOpenAI held back while a function call is suspended
sendAudioToOpenAIWhenIdle(log, connected, rs, payload) ==
    IF ~connected \/ Suspended THEN log
    ELSE IF payload = 0 THEN log
    ELSE sendToOpenAI(log, rs, "input_audio_buffer.append", "", payload, 0)

\* sendAudioToOpenAI(audioPayload); payload 0 is the empty or missing payload
sendAudioToOpenAI(log, connected, rs, payload) ==
    IF ~connected THEN log
    ELSE IF payload = 0 THEN log
    ELSE sendToOpenAI(log, rs, "input_audio_buffer.append", "", payload, 0)

\* sendAudioToExotel without the streamSid test
ExotelSendAllowedNoStreamSid(rs, sid, audioData) ==
    /\ ~(rs = "NONE" \/ rs # "OPEN")
    /\ audioData # 0

\* the guards of sendAudioToExotel(audioData)
ExotelSendAllowed(rs, sid, audioData) ==
    /\ ~(rs = "NONE" \/ rs # "OPEN")
    /\ Truthy(sid)
    /\ audioData # 0

\* sendAudioToExotel putting the frame ahead of the frames already sent
sendAudioToExotelFirst(log, rs, sid, audioData) ==
    IF ExotelSendAllowed(rs, sid, audioData)
      THEN <<[event |-> "media", streamSid |-> sid, payload |-> audioData]>> \o log
      ELSE log

\* sendAudioToExotel(audioData)
sendAudioToExotel(log, rs, sid, audioData) ==
    IF ExotelSendAllowed(rs, sid, audioData)
      THEN Append(log, [event |-> "media", streamSid |-> sid, payload |-> audioData])
      ELSE log

\* cleanup() ending whichever conversation the registry lists first
CleanupIdentifierFirstRegistered ==
    IF \E k \in Keys : activeConversations[k] # 0
      THEN CHOOSE k \in Keys : activeConversations[k] # 0
      ELSE callSid

\* the argument cleanup() passes to endConversation
CleanupIdentifier == callSid

\* cleanup(): close the model socket, end the conversation under this.callSid
Cleanup(rs) ==
    /\ openaiWs' = IF rs # "NONE" THEN WsClose(rs) ELSE rs
    /\ cleanupStarted' = cleanupStarted + 1
    /\ IF conversation # 0
         THEN /\ EndConversationStart(CleanupIdentifier, "completed", "cleanup")
              /\ cleanupDone' = IF EndReturnsNow(CleanupIdentifier)
                                  THEN cleanupDone + 1 ELSE cleanupDone
         ELSE /\ UNCHANGED <<convs, activeConversations, endTasks>>
              /\ cleanupDone' = cleanupDone + 1

\* the close code of ws.close(1011, 'Error initializing session')
InternalError == 1011

\* the catch of the connection acceptor without its ws.close
AcceptorLeavesOpen(rs) == rs

\* the catch of the connection acceptor: ws.close(1011, ...) on the telephony socket
AcceptorClose(rs) == WsClose(rs)

\* initialize() after the record is known: new WebSocket(url), then
\* setupOpenAIHandlers + setupExotelHandlers; when the constructor throws,
\* initialize() rethrows, createRealtimeSession rejects and the acceptor closes
\* the telephony socket, whose state is rs
InitializeFinish(conv, rs) ==
    /\ conversation' = conv
    /\ IF modelUrlValid
         THEN /\ openaiWs' = "CONNECTING"
              /\ phase' = "ready"
              /\ exotelWs' = rs
              /\ closeCode' = closeCode
         ELSE /\ openaiWs' = openaiWs
              /\ phase' = "failed"
              /\ exotelWs' = AcceptorClose(rs)
              /\ closeCode' = InternalError

\* initialize() of the second bridge after its record is known
OtherInitializeFinish(conv) ==
    [other EXCEPT !.phase = "ready", !.conversation = conv, !.openaiWs = "CONNECTING"]

\* wss.on('connection') for the second bridge, whose call identifier has no record yet
OtherConnection ==
    /\ other.phase = "none"
    /\ Len(convs) < MaxConvs
    /\ CreateConversationStart(OtherCallSid, UNDEF, "other-bridge")
    /\ other' = IF dbEnabled
                  THEN [other EXCEPT !.phase = "initializing", !.exotelWs = "OPEN"]
                  ELSE [OtherInitializeFinish(Len(convs) + 1) EXCEPT !.exotelWs = "OPEN"]
    /\ UNCHANGED <<proxy, shutdown, envVars, returned, request, result, closeCode, startDelivered, sessionVars, now,
                   endTasks, bridgeVars, wireVars, fnVars, countVars>>

\* the open handler of the second bridge's model socket
OtherOpenAIOpen ==
    /\ other.openaiWs = "CONNECTING"
    /\ other' = [other EXCEPT !.openaiWs = "OPEN"]
    /\ UNCHANGED <<proxy, shutdown, envVars, returned, request, result, closeCode, startDelivered, sessionVars, now,
                   registryVars, bridgeVars, wireVars, fnVars, countVars>>

\* handleExotelMessage, case 'start', of the second bridge
OtherExotelStart(sid) ==
    /\ other.phase = "ready"
    /\ other.exotelWs = "OPEN"
    /\ other' = [other EXCEPT !.streamSid = sid]
    /\ UNCHANGED <<proxy, shutdown, envVars, returned, request, result, closeCode, startDelivered, sessionVars, now,
                   registryVars, bridgeVars, wireVars, fnVars, countVars>>

\* wss.on('connection'): new RealtimeSessionHandler(ws, callSid, phoneNumber); initialize()
Connection(cs) ==
    /\ phase = "none"
    /\ callSid' = cs
    /\ phoneNumber' = requestPhone
    /\ IF getConversation(cs) # 0
         THEN /\ InitializeFinish(getConversation(cs), "OPEN")
              /\ UNCHANGED registryVars
         ELSE /\ Len(convs) < MaxConvs
              /\ CreateConversationStart(cs, UNDEF, "bridge")
              /\ UNCHANGED endTasks
              /\ IF dbEnabled
                   THEN /\ phase' = "initializing"
                        /\ exotelWs' = "OPEN"
                        /\ UNCHANGED <<conversation, openaiWs, closeCode>>
                   ELSE InitializeFinish(Len(convs) + 1, "OPEN")
    /\ UNCHANGED <<proxy, shutdown, envVars, returned, request, result, startDelivered, startParams, lastLogged,
                   transcriptsIn, messageWrites, other, now, streamSid, isConnected, audioSent, audioReceived,
                   audioSentToExotel, wireVars, fnVars, countVars>>

\* the store answers db.createConversation (ok) or fails (~ok): the record is
\* registered; a bridge waiting in initialize() goes on to open the model socket
CreateConversationResume(t, ok) ==
    /\ BagIn(t, createTasks)
    /\ createTasks' = createTasks (-) SetToBag({t})
    /\ convs' = [convs EXCEPT ![t.conv].id = IF ok THEN t.conv ELSE 0]
    /\ activeConversations' = [activeConversations EXCEPT ![t.key] = t.conv]
    /\ IF t.by = "bridge"
         THEN InitializeFinish(t.conv, exotelWs)
         ELSE UNCHANGED <<conversation, openaiWs, phase, exotelWs, closeCode>>
    /\ other' = IF t.by = "other-bridge" THEN OtherInitializeFinish(t.conv) ELSE other
    /\ UNCHANGED <<proxy, shutdown, envVars, returned, request, result, startDelivered, sessionVars, now, endTasks, callSid,
                   streamSid, isConnected, audioSent, audioReceived, audioSentToExotel,
                   wireVars, fnVars, countVars>>

\* sendSessionUpdate(): one session.update frame
sendSessionUpdate(log, rs) == sendToOpenAI(log, rs, "session.update", "", 0, 0)

\* sendInitialGreeting with its two sends exchanged
sendInitialGreetingResponseFirst(log, rs) ==
    sendToOpenAI(sendToOpenAI(log, rs, "response.create", "", 0, 0),
                 rs, "conversation.item.create", "message", 0, 0)

\* sendInitialGreeting(): the user item 'Hello', then response.create
sendInitialGreeting(log, rs) ==
    sendToOpenAI(sendToOpenAI(log, rs, "conversation.item.create", "message", 0, 0),
                 rs, "response.create", "", 0, 0)

\* openaiWs.on('open'): isConnected = true, sendSessionUpdate(), sendInitialGreeting()
OpenAIOpen ==
    /\ openaiWs = "CONNECTING"
    /\ openaiWs' = "OPEN"
    /\ isConnected' = TRUE
    /\ sentToOpenAI' = sendInitialGreeting(sendSessionUpdate(sentToOpenAI, "OPEN"), "OPEN")
    /\ UNCHANGED <<envVars, apiVars, now, registryVars, phase, callSid, conversation, streamSid,
                   audioSent, audioReceived, audioSentToExotel, exotelWs, sentToExotel,
                   mediaArrivals, deltaArrivals, fnVars, countVars>>

\* openaiWs.on('close'): the model socket is gone (handshake failure, remote
\* close, or the end of a close started by cleanup)
OpenAIClosed ==
    /\ openaiWs \in {"CONNECTING", "OPEN", "CLOSING"}
    /\ isConnected' = FALSE
    /\ Cleanup("CLOSED")
    /\ UNCHANGED <<envVars, apiVars, now, createTasks, phase, callSid, conversation, streamSid,
                   audioSent, audioReceived, audioSentToExotel, exotelWs, wireVars, fnVars,
                   stops, httpEnds, sweeps, mediaIn, deltasIn>>

\* the model peer starts the closing handshake: the socket is CLOSING until
\* the 'close' event, and isConnected is still true
OpenAICloseFrame ==
    /\ openaiWs = "OPEN"
    /\ openaiWs' = "CLOSING"
    /\ UNCHANGED <<envVars, apiVars, now, registryVars, phase, callSid, conversation, streamSid,
                   isConnected, audioSent, audioReceived, audioSentToExotel, exotelWs,
                   wireVars, fnVars, countVars>>

\* the telephony peer starts the closing handshake
ExotelCloseFrame ==
    /\ exotelWs = "OPEN"
    /\ exotelWs' = "CLOSING"
    /\ UNCHANGED <<envVars, apiVars, now, registryVars, phase, callSid, conversation, streamSid,
                   isConnected, audioSent, audioReceived, audioSentToExotel, openaiWs,
                   wireVars, fnVars, countVars>>

\* exotelWs.on('close'); before initialize() has installed the handler the event is lost
ExotelClosed ==
    /\ exotelWs \in {"OPEN", "CLOSING"}
    /\ exotelWs' = "CLOSED"
    /\ IF phase = "ready"
         THEN Cleanup(openaiWs)
         ELSE UNCHANGED <<convs, activeConversations, endTasks, openaiWs,
                          cleanupStarted, cleanupDone>>
    /\ UNCHANGED <<envVars, apiVars, now, createTasks, phase, callSid, conversation, streamSid,
                   isConnected, audioSent, audioReceived, audioSentToExotel, wireVars, fnVars,
                   stops, httpEnds, sweeps, mediaIn, deltasIn>>

\* the start case overwriting a field of the bridge with the stream's parameter
StartFillOverwrites(known, hasParams, param) ==
    IF hasParams /\ Truthy(param) THEN param ELSE known

\* the start case for one field: if (!this.field && customParameters.field) this.field = ...
StartFill(known, hasParams, param) ==
    IF hasParams /\ ~Truthy(known) /\ Truthy(param) THEN param ELSE known

\* handleExotelMessage, case 'start'; cp and pn are customParameters.callSid and
\* customParameters.phoneNumber, hasParams tells whether customParameters is present
ExotelStart(sid, hasParams, cp, pn) ==
    /\ phase = "ready"
    /\ exotelWs = "OPEN"
    /\ streamSid' = sid
    /\ startDelivered' = sid
    /\ startParams' = [sid |-> sid, hasParams |-> hasParams, callSid |-> cp, phoneNumber |-> pn]
    /\ callSid' = StartFill(callSid, hasParams, cp)
    /\ phoneNumber' = StartFill(phoneNumber, hasParams, pn)
    /\ UNCHANGED <<proxy, shutdown, envVars, returned, request, result, closeCode, lastLogged, transcriptsIn,
                   messageWrites, other, now,
                   registryVars, phase, conversation, isConnected, audioSent,
                   audioReceived, audioSentToExotel, openaiWs, exotelWs, wireVars, fnVars,
                   countVars>>

\* a start event arrives while initialize() waits for createConversation:
\* exotelWs.on('message') is not installed yet, the socket emits the event to
\* no listener and nothing of the bridge changes
ExotelStartUnheard(sid) ==
    /\ phase = "initializing"
    /\ exotelWs = "OPEN"
    /\ startDelivered' = sid
    /\ UNCHANGED <<proxy, shutdown, envVars, returned, request, result, closeCode, sessionVars, other, now,
                   registryVars, bridgeVars, wireVars, fnVars, countVars>>

\* process.on('SIGTERM') up to its loop: every client socket of the WebSocket
\* server is closed, getActiveConversations() lists the registered records
Sigterm ==
    /\ shutdown.pc = "none"
    /\ shutdown' = [pc |-> "loop",
                    listed |-> {i \in DOMAIN convs : Registered(i)},
                    todo |-> {convs[i].sessionId : i \in {j \in DOMAIN convs : Registered(j)}}]
    /\ exotelWs' = WsClose(exotelWs)
    /\ UNCHANGED <<proxy, envVars, returned, request, result, closeCode, startDelivered, sessionVars,
                   other, now, registryVars, phase, callSid, conversation, streamSid,
                   isConnected, audioSent, audioReceived, audioSentToExotel, openaiWs,
                   wireVars, fnVars, countVars>>

\* one turn of the loop: await endConversation(conv.sessionId, 'server_shutdown');
\* the next turn starts when the previous one has returned
ShutdownStep(sessionId) ==
    /\ shutdown.pc = "loop"
    /\ sessionId \in shutdown.todo
    /\ \A t \in BagToSet(endTasks) : t.by # "shutdown"
    /\ shutdown' = [shutdown EXCEPT !.todo = @ \ {sessionId}]
    /\ EndConversationStart(sessionId, "server_shutdown", "shutdown")
    /\ UNCHANGED <<proxy, envVars, returned, request, result, closeCode, startDelivered, sessionVars,
                   other, now, createTasks, bridgeVars, wireVars, fnVars, countVars>>

\* the loop of the SIGTERM handler has ended, server.close() is next
ShutdownLoopDone ==
    /\ shutdown.pc = "loop"
    /\ shutdown.todo = {}
    /\ \A t \in BagToSet(endTasks) : t.by # "shutdown"

\* ------------------------------------------------------ web-voice proxy
ProxyRest == <<envVars, returned, request, result, closeCode, startDelivered, sessionVars,
               other, shutdown, now, registryVars, bridgeVars, wireVars, fnVars, countVars>>

\* handleWebVoiceConnection: the model socket is constructed, the handlers installed
WebVoiceConnection ==
    /\ proxy.clientWs = "NONE"
    /\ proxy' = [proxy EXCEPT !.clientWs = "OPEN", !.openaiWs = "CONNECTING"]
    /\ UNCHANGED ProxyRest

\* openaiWs.on('open') of the proxy: logs
ProxyOpenAIOpen ==
    /\ proxy.openaiWs = "CONNECTING"
    /\ proxy' = [proxy EXCEPT !.openaiWs = "OPEN"]
    /\ UNCHANGED ProxyRest

\* a message handler of the proxy: the data is sent when the destination is OPEN
ProxyForward(from, rs) ==
    Append(proxy.messages, [from |-> from, rs |-> rs, forwarded |-> rs = "OPEN"])

\* clientWs.on('message')
ProxyClientMessage ==
    /\ proxy.clientWs \in {"OPEN", "CLOSING"}
    /\ Len(proxy.messages) < MaxProxyMessages
    /\ proxy' = [proxy EXCEPT !.messages = ProxyForward("client", proxy.openaiWs)]
    /\ UNCHANGED ProxyRest

\* openaiWs.on('message') of the proxy
ProxyOpenAIMessage ==
    /\ proxy.openaiWs \in {"OPEN", "CLOSING"}
    /\ Len(proxy.messages) < MaxProxyMessages
    /\ proxy' = [proxy EXCEPT !.messages = ProxyForward("openai", proxy.clientWs)]
    /\ UNCHANGED ProxyRest

\* `if (other.readyState === WebSocket.OPEN) other.close(...)`
CloseIfOpen(rs) == IF rs = "OPEN" THEN WsClose(rs) ELSE rs

\* clientWs.on('close')
ProxyClientClosed ==
    /\ proxy.clientWs \in {"OPEN", "CLOSING"}
    /\ proxy' = [proxy EXCEPT !.clientWs = "CLOSED", !.openaiWs = CloseIfOpen(@)]
    /\ UNCHANGED ProxyRest

\* openaiWs.on('close') of the proxy
ProxyOpenAIClosed ==
    /\ proxy.openaiWs \in {"CONNECTING", "OPEN", "CLOSING"}
    /\ proxy' = [proxy EXCEPT !.openaiWs = "CLOSED", !.clientWs = CloseIfOpen(@)]
    /\ UNCHANGED ProxyRest

\* openaiWs.on('error') of the proxy: clientWs.close(1011, ...); the socket's
\* 'close' event follows
ProxyOpenAIError ==
    /\ proxy.openaiWs \in {"CONNECTING", "OPEN"}
    /\ proxy.clientWs = "OPEN"
    /\ proxy' = [proxy EXCEPT !.clientWs = CloseIfOpen(@)]
    /\ UNCHANGED ProxyRest

\* the transcript test dropped: every transcript event is logged
TranscriptLoggedAlways(content) == TRUE

\* `if (content)` / `if (message.transcript)`: an empty transcript is not logged
TranscriptLogged(content) == content # ""

\* Conversation.addMessage up to its await: this.messages.push(message)
addMessage(c, role, content) ==
    [c EXCEPT !.messages = Append(@, [role |-> role, content |-> content])]

\* handleOpenAIMessage, case 'conversation.item.created' with a user message item
\* (role "user") and case 'response.audio_transcript.done' (role "assistant");
\* addMessage pushes at once and then waits for the store when the record has an id
Transcript(role, content) ==
    /\ isConnected
    /\ openaiWs \in {"OPEN", "CLOSING"}
    /\ conversation # 0
    /\ Len(transcriptsIn) < MaxTranscripts
    /\ transcriptsIn' = Append(transcriptsIn, [role |-> role, content |-> content,
                                               pending |-> messageWrites])
    /\ IF TranscriptLogged(content)
         THEN /\ convs' = [convs EXCEPT ![conversation] = addMessage(@, role, content)]
              /\ messageWrites' = IF convs[conversation].id # 0
                                    THEN messageWrites + 1 ELSE messageWrites
         ELSE UNCHANGED <<convs, messageWrites>>
    /\ UNCHANGED <<proxy, shutdown, envVars, returned, request, result, closeCode, startDelivered, phoneNumber,
                   startParams, lastLogged, other, now, activeConversations, createTasks,
                   endTasks, bridgeVars, wireVars, fnVars, countVars>>

\* the store answers db.addConversationMessage (or fails: the error is caught and
\* logged); addMessage returns its message to a caller that ignores it
MessagePersisted ==
    /\ messageWrites > 0
    /\ messageWrites' = messageWrites - 1
    /\ UNCHANGED <<proxy, shutdown, envVars, returned, request, result, closeCode, startDelivered, phoneNumber,
                   startParams, lastLogged, transcriptsIn, other, now, registryVars,
                   bridgeVars, wireVars, fnVars, countVars>>

\* a handler that closed the socket on an error event
SocketAfterLoggedErrorCloses(kind, rs) == IF kind = "error" THEN WsClose(rs) ELSE rs

\* the readyState of a socket after a case that only logs, or the default
\* case, of handleOpenAIMessage / handleExotelMessage: nothing is called on it
SocketAfterLogged(kind, rs) == rs

\* handleOpenAIMessage, cases 'error', 'session.created', 'session.updated',
\* 'response.audio_transcript.delta', 'response.done' and default
OpenAILogged(kind) ==
    /\ isConnected
    /\ openaiWs \in {"OPEN", "CLOSING"}
    /\ lastLogged' = [socket |-> "openai", kind |-> kind, mediaIn |-> mediaIn]
    /\ openaiWs' = SocketAfterLogged(kind, openaiWs)
    /\ UNCHANGED <<proxy, shutdown, envVars, returned, request, result, closeCode, startDelivered, phoneNumber,
                   startParams, transcriptsIn, messageWrites, other, now, registryVars, phase, callSid, conversation,
                   streamSid, isConnected, audioSent, audioReceived, audioSentToExotel,
                   exotelWs, wireVars, fnVars, countVars>>

\* handleExotelMessage, default case (events 'connected', 'mark', 'dtmf', unknown)
ExotelLogged(kind) ==
    /\ phase = "ready"
    /\ exotelWs = "OPEN"
    /\ lastLogged' = [socket |-> "exotel", kind |-> kind, mediaIn |-> mediaIn]
    /\ exotelWs' = SocketAfterLogged(kind, exotelWs)
    /\ UNCHANGED <<proxy, shutdown, envVars, returned, request, result, closeCode, startDelivered, phoneNumber,
                   startParams, transcriptsIn, messageWrites, other, now, registryVars, phase, callSid, conversation,
                   streamSid, isConnected, audioSent, audioReceived, audioSentToExotel,
                   openaiWs, wireVars, fnVars, countVars>>

\* handleExotelMessage, case 'media'; payload 0 is the empty or missing payload
ExotelMedia(payload) ==
    /\ phase = "ready"
    /\ exotelWs = "OPEN"
    /\ mediaIn < MaxMedia
    /\ mediaIn' = mediaIn + 1
    /\ mediaArrivals' = Append(mediaArrivals,
                               [payload |-> payload, connected |-> isConnected, rs |-> openaiWs,
                                stops |-> stops, streamSid |-> streamSid,
                                suspended |-> Suspended])
    /\ IF isConnected /\ payload # 0
         THEN /\ audioSent' = TRUE
              /\ sentToOpenAI' = sendAudioToOpenAI(sentToOpenAI, isConnected, openaiWs, payload)
         ELSE UNCHANGED <<audioSent, sentToOpenAI>>
    /\ UNCHANGED <<envVars, apiVars, now, registryVars, phase, callSid, conversation, streamSid,
                   isConnected, audioReceived, audioSentToExotel, openaiWs, exotelWs,
                   sentToExotel, deltaArrivals, fnVars,
                   stops, httpEnds, sweeps, deltasIn, cleanupStarted, cleanupDone>>

\* handleExotelMessage, case 'stop'
ExotelStop ==
    /\ phase = "ready"
    /\ exotelWs = "OPEN"
    /\ stops < MaxStops
    /\ stops' = stops + 1
    /\ EndConversationStart(callSid, "completed", "stop")
    /\ UNCHANGED <<envVars, apiVars, now, createTasks, bridgeVars, wireVars, fnVars,
                   httpEnds, sweeps, mediaIn, deltasIn, cleanupStarted, cleanupDone>>

\* handleOpenAIMessage, case 'response.audio.delta'; delta 0 is the empty delta.
\* The model socket delivers messages once it has opened and until its 'close'.
AudioDelta(delta) ==
    /\ isConnected
    /\ openaiWs \in {"OPEN", "CLOSING"}
    /\ deltasIn < MaxDeltas
    /\ deltasIn' = deltasIn + 1
    /\ deltaArrivals' = Append(deltaArrivals,
                               [delta |-> delta, streamSid |-> streamSid, rs |-> exotelWs,
                                suspended |-> Suspended])
    /\ IF delta # 0
         THEN /\ audioReceived' = TRUE
              /\ sentToExotel' = sendAudioToExotel(sentToExotel, exotelWs, streamSid, delta)
              /\ audioSentToExotel' = (audioSentToExotel \/ sentToExotel' # sentToExotel)
         ELSE UNCHANGED <<audioReceived, sentToExotel, audioSentToExotel>>
    /\ UNCHANGED <<envVars, apiVars, now, registryVars, phase, callSid, conversation, streamSid,
                   isConnected, audioSent, openaiWs, exotelWs, sentToOpenAI, mediaArrivals,
                   fnVars, stops, httpEnds, sweeps, mediaIn, cleanupStarted, cleanupDone>>

\* ------------------------------------------------------ Function calls
\* the record of the bridge has been ended and is no longer registered
TornDown ==
    /\ conversation # 0
    /\ convs[conversation].ends # <<>>
    /\ ~Registered(conversation)

FunctionNames == {"search_doctors", "emergency_protocol", "transfer_to_operator", "no_such_function"}
ArgStrings == {"", "{\"emergencyType\":\"cardiac\"}", "{\"emergencyType\":"}

\* argsString || '{}'
ArgsOrDefault(argsString) == IF argsString = "" THEN "{}" ELSE argsString

\* JSON.parse returns (TRUE) or throws SyntaxError (FALSE)
JSONParses(text) == text \in {"{}", "{\"emergencyType\":\"cardiac\"}"}

\* the action field of the result handleFunctionCall(name, args) returns
DispatchAction(name) ==
    CASE name = "emergency_protocol" -> "TRANSFER_EMERGENCY"
      [] name = "transfer_to_operator" -> "TRANSFER_OPERATOR"
      [] OTHER -> "NONE"

\* the handlers table of the function router
KnownFunction(name) ==
    name \in {"search_doctors", "emergency_protocol", "transfer_to_operator"}

\* the handler waits for the store only when it queries it and the store is enabled
DispatchSuspends(name) == name = "search_doctors" /\ dbEnabled

\* the configuration checks without the PUBLIC_URL test
TransferConfiguredCredentialsOnly == exotelCredentials

\* the configuration checks at the top of execute*Transfer
TransferConfigured == exotelCredentials /\ publicUrl

\* execute*Transfer without its try/catch: a failed POST propagates
TransferThrowsOnFailure(outcome) == outcome = "failed"

\* execute*Transfer catches every error: nothing propagates to handleFunctionCall
TransferThrows(outcome) == FALSE

\* execute*Transfer called without await: the result is sent at once
OutputDueAtOnce(transfer) == TRUE

\* `await this.execute*Transfer(...)`: the result is sent once the transfer has returned
OutputDue(transfer) == transfer # "pending"

NewCall(name, argsString, pc) ==
    [name |-> name, args |-> argsString, pc |-> pc, action |-> "NONE",
     transfer |-> "none", sent |-> FALSE, tornDown |-> TornDown]

\* logFunctionCall, then logEmergency / logTransfer according to result.action
LogCall(c, id, action) ==
    [c EXCEPT !.functionCalls = Append(@, id),
              !.emergencies = IF action = "TRANSFER_EMERGENCY" THEN Append(@, id) ELSE @,
              !.transfers = IF action = "TRANSFER_OPERATOR" THEN Append(@, id) ELSE @]

\* the two sends that close handleFunctionCall
SendFunctionResult(log, rs, id) ==
    sendToOpenAI(sendToOpenAI(log, rs, "conversation.item.create", "function_call_output", 0, id),
                 rs, "response.create", "", 0, 0)

\* handleFunctionCall from the point where `await handleFunctionCall(name, args)` has
\* produced its result: log, start the transfer if one is asked for, send the result
\* unless the transfer is awaited.  calls is fcalls with entry id already present.
AfterDispatch(calls, id) ==
    LET action == DispatchAction(calls[id].name)
        transfer == IF action = "NONE" THEN "none"
                    ELSE IF TransferConfigured THEN "pending" ELSE "skipped"
        due == OutputDue(transfer)
    IN /\ convs' = [convs EXCEPT ![conversation] = LogCall(@, id, action)]
       /\ transferLog' = IF transfer = "pending"
                           THEN Append(transferLog, [call |-> id, action |-> action])
                           ELSE transferLog
       /\ fcalls' = [calls EXCEPT ![id] =
                       [@ EXCEPT !.action = action, !.transfer = transfer, !.sent = due,
                                 !.pc = IF transfer = "pending" THEN "transfer" ELSE "done"]]
       /\ sentToOpenAI' = IF due THEN SendFunctionResult(sentToOpenAI, openaiWs, id)
                          ELSE sentToOpenAI

\* handleOpenAIMessage, case 'response.function_call_arguments.done', on a
\* model socket that has opened
FunctionCallArgumentsDone(name, argsString) ==
    LET id == Len(fcalls) + 1 IN
    /\ isConnected
    /\ openaiWs \in {"OPEN", "CLOSING"}
    /\ Len(fcalls) < MaxFnCalls
    /\ IF ~JSONParses(ArgsOrDefault(argsString))
         THEN /\ fcalls' = Append(fcalls, NewCall(name, argsString, "thrown"))
              /\ UNCHANGED <<convs, transferLog, sentToOpenAI>>
         ELSE IF DispatchSuspends(name)
         THEN /\ fcalls' = Append(fcalls, NewCall(name, argsString, "dispatch"))
              /\ UNCHANGED <<convs, transferLog, sentToOpenAI>>
         ELSE AfterDispatch(Append(fcalls, NewCall(name, argsString, "dispatch")), id)
    /\ UNCHANGED <<envVars, apiVars, now, activeConversations, createTasks, endTasks, bridgeVars,
                   sentToExotel, mediaArrivals, deltaArrivals, countVars>>

\* the store answers the handler's queries
DispatchResume(id) ==
    /\ id \in DOMAIN fcalls
    /\ fcalls[id].pc = "dispatch"
    /\ AfterDispatch(fcalls, id)
    /\ UNCHANGED <<envVars, apiVars, now, activeConversations, createTasks, endTasks, bridgeVars,
                   sentToExotel, mediaArrivals, deltaArrivals, countVars>>

\* the call-control POST of execute*Transfer is answered (succeeded) or fails
TransferResume(id, outcome) ==
    /\ id \in DOMAIN fcalls
    /\ fcalls[id].pc = "transfer"
    /\ IF TransferThrows(outcome)
         THEN /\ fcalls' = [fcalls EXCEPT ![id] = [@ EXCEPT !.transfer = outcome, !.pc = "thrown"]]
              /\ UNCHANGED sentToOpenAI
         ELSE /\ fcalls' = [fcalls EXCEPT ![id] =
                              [@ EXCEPT !.transfer = outcome, !.pc = "done", !.sent = TRUE]]
              /\ sentToOpenAI' = IF fcalls[id].sent THEN sentToOpenAI
                                 ELSE SendFunctionResult(sentToOpenAI, openaiWs, id)
    /\ UNCHANGED <<envVars, apiVars, now, registryVars, bridgeVars, transferLog,
                   sentToExotel, mediaArrivals, deltaArrivals, countVars>>

\* ----------------------------------------------------- Function Dispatch
EMERGENCY_CONTACTS ==
    [main |-> "+91-22-2640-0000", ambulance |-> "+91-22-2640-1111",
     trauma |-> "+91-22-2640-2222", cardiac |-> "+91-22-2640-3333"]

\* the keys of the handlers table
DeclaredFunctions ==
    {"search_doctors", "get_departments", "get_hospital_locations", "get_contact_details",
     "check_doctor_availability", "emergency_protocol", "transfer_to_operator",
     "search_hospital_info"}

\* property names every object literal inherits from Object.prototype
InheritedNames == {"constructor", "toString", "hasOwnProperty"}

\* the value of an inherited property, as JSON.stringify and String see it
InheritedValue(name) == "[Function: " \o name \o "]"

DispatchNames == DeclaredFunctions \cup InheritedNames \cup {"no_such_function"}

EmergencyTypes == {UNDEF, "cardiac", "trauma", "stroke", "default", "constructor"}
\* department arguments; NumberArg stands for a JSON number
NumberArg == "<number>"
Departments == {UNDEF, "", "General", "Cardiology", "Heart Care", "Emergency Cardiac",
                "Accident Unit", "Ambulance", NumberArg}
Queries == {UNDEF, "parking"}

\* JSON.parse(argsString || '{}'): null, or an object with some of the properties
ArgValues ==
    {a \in [null : BOOLEAN, emergencyType : EmergencyTypes, department : Departments,
            query : Queries] :
        a.null => (a.emergencyType = UNDEF /\ a.department = UNDEF /\ a.query = UNDEF)}

\* what the store holds for the query at hand: matching rows, only doctor rows
\* (for the free-text search), no rows, or it fails
StoreOutcomes == {"found", "partial", "none", "failure"}

\* number of rows a database.js read returns: [] without a store and on any error
Rows(store) == IF dbEnabled /\ store \in {"found", "partial"} THEN 1 ELSE 0

Res(success, message, action, transferTo, department, path) ==
    [kind |-> "object", success |-> success, message |-> message, action |-> action,
     transferTo |-> transferTo, department |-> department, path |-> path]

\* `const { ... } = args` throws on null
Destructures(a) == ~a.null

searchDoctors(a, store) ==
    IF ~Destructures(a)
      THEN Res("false", "I'm having trouble accessing doctor information right now.",
               UNDEF, UNDEF, UNDEF, "catch")
    ELSE IF Rows(store) = 0
      THEN Res("false", "No doctors found matching your criteria.", UNDEF, UNDEF, UNDEF, "empty")
    ELSE Res("true", "I found 1 doctor(s):", UNDEF, UNDEF, UNDEF, "ok")

\* `args || {}`: null arguments are read as an empty object
getDepartmentsList(a, store) ==
    IF Rows(store) = 0
      THEN Res("false", "I couldn't retrieve department information at the moment.",
               UNDEF, UNDEF, UNDEF, "empty")
      ELSE Res("true", "We have 1 departments:", UNDEF, UNDEF, UNDEF, "ok")

getHospitalLocationsList(a, store) ==
    IF Rows(store) = 0
      THEN Res("false", "I couldn't find that location.", UNDEF, UNDEF, UNDEF, "empty")
      ELSE Res("true", "name - branch Address: address, city Phone: phone",
               UNDEF, UNDEF, UNDEF, "ok")

getContactInfo(a, store) ==
    IF Rows(store) = 0
      THEN Res("false", "Let me transfer you to our main reception",
               UNDEF, UNDEF, UNDEF, "empty")
      ELSE Res("true", "category Phone: phone", UNDEF, UNDEF, UNDEF, "ok")

checkDoctorAvailability(a, store) ==
    IF ~Destructures(a)
      THEN Res("false", "I'm having trouble checking availability.",
               UNDEF, UNDEF, UNDEF, "catch")
    ELSE IF Rows(store) = 0
      THEN Res("false", "I couldn't find availability information for this doctor.",
               UNDEF, UNDEF, UNDEF, "empty")
    ELSE Res("true", "Doctor's availability:", UNDEF, UNDEF, UNDEF, "ok")

\* emergencyContacts[emergencyType] on the literal {cardiac, trauma, default}
EmergencyLookup(type) ==
    CASE type = "cardiac" -> EMERGENCY_CONTACTS.cardiac
      [] type = "trauma" -> EMERGENCY_CONTACTS.trauma
      [] type = "default" -> EMERGENCY_CONTACTS.main
      [] type \in InheritedNames -> InheritedValue(type)
      [] OTHER -> UNDEF

emergencyProtocol(a) ==
    IF ~Destructures(a)
      THEN Res("true", "Emergency situation detected.", "TRANSFER_EMERGENCY",
               EMERGENCY_CONTACTS.main, UNDEF, "catch")
      ELSE LET contactNumber == IF Truthy(EmergencyLookup(a.emergencyType))
                                  THEN EmergencyLookup(a.emergencyType)
                                  ELSE EMERGENCY_CONTACTS.main
           IN Res("true", "This is an emergency situation.", "TRANSFER_EMERGENCY",
                  contactNumber, UNDEF, "ok")

transferToOperator(a) ==
    IF ~Destructures(a)
      THEN Res("true", "Let me transfer you to our operator. Please hold.",
               "TRANSFER_OPERATOR", UNDEF, UNDEF, "catch")
      ELSE Res("true", "I understand. Let me transfer you", "TRANSFER_OPERATOR", UNDEF,
               IF Truthy(a.department) THEN a.department ELSE "General", "ok")

\* with hospital_info rows at hand the filter calls query.toLowerCase()
searchHospitalInformation(a, store) ==
    IF ~Destructures(a) \/ (Rows(store) > 0 /\ store = "found" /\ a.query = UNDEF)
      THEN Res("false", "I'm having trouble searching that information.",
               UNDEF, UNDEF, UNDEF, "catch")
    ELSE IF Rows(store) = 0
      THEN Res("false", "I couldn't find specific information about that.",
               UNDEF, UNDEF, UNDEF, "empty")
    ELSE LET response == IF store = "found" THEN "title: content" ELSE ""
         IN Res("true",
                IF response # "" THEN response ELSE "I found some related information.",
                UNDEF, UNDEF, UNDEF, "ok")

\* handlers[functionName] on the handlers object literal: own keys, then Object.prototype
HandlerLookup(name) ==
    IF name \in DeclaredFunctions THEN name
    ELSE IF name \in InheritedNames THEN InheritedValue(name)
    ELSE UNDEF

\* handler(args) for a handler found on Object.prototype, called without receiver:
\* Object(args) is the argument object itself, toString answers a string,
\* hasOwnProperty throws and the router's catch answers
InheritedCall(name) ==
    CASE name = "constructor" ->
           [kind |-> "object", success |-> UNDEF, message |-> UNDEF, action |-> UNDEF,
            transferTo |-> UNDEF, department |-> UNDEF, path |-> "inherited"]
      [] name = "toString" ->
           [kind |-> "string", success |-> UNDEF, message |-> UNDEF, action |-> UNDEF,
            transferTo |-> UNDEF, department |-> UNDEF, path |-> "inherited"]
      [] OTHER -> Res("false", "I encountered an error processing your request.",
                      UNDEF, UNDEF, UNDEF, "router-catch")

\* handleFunctionCall(functionName, args) of the function router
handleFunctionCall(name, a, store) ==
    IF ~Truthy(HandlerLookup(name))
      THEN Res("false", "I'm not sure how to handle that request.",
               UNDEF, UNDEF, UNDEF, "unknown")
    ELSE CASE name = "search_doctors" -> searchDoctors(a, store)
           [] name = "get_departments" -> getDepartmentsList(a, store)
           [] name = "get_hospital_locations" -> getHospitalLocationsList(a, store)
           [] name = "get_contact_details" -> getContactInfo(a, store)
           [] name = "check_doctor_availability" -> checkDoctorAvailability(a, store)
           [] name = "emergency_protocol" -> emergencyProtocol(a)
           [] name = "transfer_to_operator" -> transferToOperator(a)
           [] name = "search_hospital_info" -> searchHospitalInformation(a, store)
           [] OTHER -> InheritedCall(name)

\* one call of the router; the calls are independent, each is taken from the
\* initial state
RouterCall(name, a, store) ==
    /\ request.fn = "none"
    /\ request' = [fn |-> "handleFunctionCall", name |-> name, args |-> a, store |-> store]
    /\ result' = handleFunctionCall(name, a, store)
    /\ UNCHANGED <<proxy, shutdown, envVars, returned, closeCode, startDelivered, sessionVars, other, now, registryVars, bridgeVars, wireVars, fnVars,
                   countVars>>

\* ------------------------------------------- department resolution
\* phone_number of the first row the contact directory answers with
DirectoryPhones == {"+91-22-2640-2101", "", NULL}

\* (department || '').toLowerCase()
ToLowerCase(department) ==
    CASE ~Truthy(department) -> ""
      [] department = "General" -> "general"
      [] department = "Cardiology" -> "cardiology"
      [] department = "Heart Care" -> "heart care"
      [] department = "Emergency Cardiac" -> "emergency cardiac"
      [] department = "Accident Unit" -> "accident unit"
      [] department = "Ambulance" -> "ambulance"

\* deptLower.includes(keyword)
Includes(deptLower, keyword) ==
    <<deptLower, keyword>> \in
        {<<"heart care", "heart">>, <<"emergency cardiac", "emergency">>,
         <<"emergency cardiac", "cardiac">>, <<"accident unit", "accident">>,
         <<"ambulance", "ambulance">>}

\* the keyword chain of getDepartmentContactNumber
KeywordNumber(deptLower) ==
    IF Includes(deptLower, "emergency") \/ Includes(deptLower, "urgent")
      THEN EMERGENCY_CONTACTS.main
    ELSE IF Includes(deptLower, "cardiac") \/ Includes(deptLower, "heart")
      THEN EMERGENCY_CONTACTS.cardiac
    ELSE IF Includes(deptLower, "trauma") \/ Includes(deptLower, "accident")
      THEN EMERGENCY_CONTACTS.trauma
    ELSE IF Includes(deptLower, "ambulance")
      THEN EMERGENCY_CONTACTS.ambulance
    ELSE UNDEF

\* getDepartmentContactNumber(department); phone is the first row's phone_number;
\* toLowerCase on a number throws and the catch answers the literal number
getDepartmentContactNumber(department, store, phone) ==
    IF Rows(store) > 0
      THEN [kind |-> "number", value |-> phone, path |-> "directory"]
    ELSE IF department = NumberArg
      THEN [kind |-> "number", value |-> "+91-22-2640-0000", path |-> "catch"]
    ELSE IF KeywordNumber(ToLowerCase(department)) # UNDEF
      THEN [kind |-> "number", value |-> KeywordNumber(ToLowerCase(department)),
            path |-> "keyword"]
    ELSE [kind |-> "number", value |-> EMERGENCY_CONTACTS.main, path |-> "main"]

\* one call of the department resolution, from executeOperatorTransfer
ResolveCall(department, store, phone) ==
    /\ request.fn = "none"
    /\ request' = [fn |-> "getDepartmentContactNumber", department |-> department,
                   store |-> store, phone |-> phone]
    /\ result' = getDepartmentContactNumber(department, store, phone)
    /\ UNCHANGED <<proxy, shutdown, envVars, returned, closeCode, startDelivered, sessionVars, other, now, registryVars, bridgeVars, wireVars, fnVars,
                   countVars>>

\* ------------------------------------------------------- specification
\* one bridge: connection, both sockets, the store's answers
LifecycleNext ==
    \/ \E t \in BagToSet(createTasks), ok \in BOOLEAN : CreateConversationResume(t, ok)
    \/ \E t \in BagToSet(endTasks) : EndConversationResume(t)
    \/ \E cs \in CallSids \cup {NULL} : Connection(cs)
    \/ OpenAIOpen
    \/ OpenAIClosed
    \/ ExotelClosed

\* telephony audio on its way to the model
InboundNext ==
    \/ OpenAICloseFrame
    \/ \E payload \in {0, mediaIn + 1} : ExotelMedia(payload)

\* model audio on its way to the telephony socket
OutboundNext ==
    \/ ExotelCloseFrame
    \/ \E sid \in StreamSids : ExotelStart(sid, FALSE, UNDEF, UNDEF)
    \/ \E delta \in {0, deltasIn + 1} : AudioDelta(delta)

FunctionNext ==
    \/ \E n \in FunctionNames, a \in ArgStrings : FunctionCallArgumentsDone(n, a)
    \/ \E id \in DOMAIN fcalls : DispatchResume(id)
    \/ \E id \in DOMAIN fcalls, o \in {"succeeded", "failed"} : TransferResume(id, o)

\* teardown of one bridge.  PUBLIC_URL is read by the transfers only.
Init ==
    /\ InitState
    /\ dbEnabled \in BOOLEAN
    /\ exotelCredentials \in BOOLEAN
    /\ publicUrl = FALSE
    /\ modelUrlValid = TRUE
    /\ requestPhone = NULL

Next ==
    \/ LifecycleNext
    \/ \E cs \in CallSids : IncomingCall(cs)
    \/ \E hp \in BOOLEAN, cp \in CallSids \cup {UNDEF} : ExotelStart("S1", hp, cp, UNDEF)
    \/ ExotelStop

Spec == Init /\ [][Next]_vars

\* every operation that can end a conversation, around a bridge that was
\* connected with its call identifier
RegistryNext ==
    \/ Tick(StaleMinutes + 1)
    \/ \E cs \in CallSids : IncomingCall(cs)
    \/ \E cs \in CallSids, st \in {"completed", "busy", "in-progress"} : CallStatus(cs, st)
    \/ \E cs \in CallSids : CancelCall(cs)
    \/ cleanupStaleConversations
    \/ \E t \in BagToSet(createTasks), ok \in BOOLEAN : CreateConversationResume(t, ok)
    \/ \E t \in BagToSet(endTasks) : EndConversationResume(t)
    \/ \E cs \in CallSids : Connection(cs)
    \/ OpenAIOpen
    \/ OpenAIClosed
    \/ ExotelClosed
    \/ ExotelStop

SpecRegistry == Init /\ [][RegistryNext]_vars

\* audio relay between the two sockets; the provider configuration is read by
\* the transfers and the cancel route only
InitAudio ==
    /\ InitState
    /\ dbEnabled \in BOOLEAN
    /\ exotelCredentials = FALSE
    /\ publicUrl = FALSE
    /\ modelUrlValid = TRUE
    /\ requestPhone = NULL

SpecInbound == InitAudio /\ [][LifecycleNext \/ InboundNext]_vars

SpecOutbound == InitAudio /\ [][LifecycleNext \/ OutboundNext]_vars

\* function calls issued by the model
InitFunction ==
    /\ InitState
    /\ dbEnabled \in BOOLEAN
    /\ exotelCredentials \in BOOLEAN
    /\ publicUrl \in BOOLEAN
    /\ modelUrlValid = TRUE
    /\ requestPhone = NULL

SpecFunction == InitFunction /\ [][LifecycleNext \/ FunctionNext]_vars

\* telephony audio around stop events
SpecStop == InitAudio /\ [][LifecycleNext \/ InboundNext \/ ExotelStop]_vars

\* the registry under the management routes, without a bridge
ManagerNext ==
    \/ \E d \in {StaleMinutes, StaleMinutes + 1} : Tick(d)
    \/ \E cs \in CallSids : IncomingCall(cs)
    \/ \E sid \in SessionIds : WebSession(sid)
    \/ \E id \in CallSids \cup SessionIds \cup Uuids : WebEnd(id)
    \/ AdminCleanup
    \/ \E t \in BagToSet(createTasks), ok \in BOOLEAN : CreateConversationResume(t, ok)
    \/ \E t \in BagToSet(endTasks) : EndConversationResume(t)

SpecManager == InitAudio /\ [][ManagerNext]_vars

\* the function router and the department resolution, one call at a time
DispatchNext ==
    \/ \E name \in DispatchNames, a \in ArgValues, store \in StoreOutcomes :
          RouterCall(name, a, store)
    \/ \E department \in Departments, store \in StoreOutcomes, phone \in DirectoryPhones :
          ResolveCall(department, store, phone)

SpecDispatch == InitAudio /\ [][DispatchNext]_vars

\* acceptance of a telephony connection: initialize() with a model socket
\* URL that may be invalid, and the telephony peer's first events
InitAccept ==
    /\ InitState
    /\ dbEnabled \in BOOLEAN
    /\ exotelCredentials = FALSE
    /\ publicUrl = FALSE
    /\ modelUrlValid \in BOOLEAN
    /\ requestPhone = NULL

AcceptNext ==
    \/ LifecycleNext
    \/ \E cs \in CallSids : IncomingCall(cs)
    \/ ExotelCloseFrame
    \/ \E sid \in StreamSids : ExotelStart(sid, FALSE, UNDEF, UNDEF)
    \/ \E sid \in StreamSids : ExotelStartUnheard(sid)

SpecAccept == InitAccept /\ [][AcceptNext]_vars

\* two bridges with distinct call identifiers: every event of the first, and
\* the start-up of the second
IsolationNext ==
    \/ LifecycleNext
    \/ \E cp \in CallSids : ExotelStart("S1", TRUE, cp, UNDEF)
    \/ ExotelStop
    \/ FunctionCallArgumentsDone("search_doctors", "")
    \/ \E id \in DOMAIN fcalls : DispatchResume(id)
    \/ OtherConnection
    \/ OtherOpenAIOpen
    \/ OtherExotelStart("S2")

SpecIsolation == InitAudio /\ [][IsolationNext]_vars

\* start events with and without stream parameters, on bridges accepted with
\* and without a call identifier and a caller phone
Phones == {"+91-98200-00000", "+91-98200-11111"}

InitStart ==
    /\ InitState
    /\ dbEnabled \in BOOLEAN
    /\ exotelCredentials = FALSE
    /\ publicUrl = FALSE
    /\ modelUrlValid = TRUE
    /\ requestPhone \in {NULL, "+91-98200-00000"}

StartNext ==
    \/ LifecycleNext
    \/ \E sid \in {"S1", UNDEF}, hp \in BOOLEAN, cp \in {OtherCallSid, UNDEF, ""},
          pn \in {"+91-98200-11111", UNDEF} : ExotelStart(sid, hp, cp, pn)

SpecStart == InitStart /\ [][StartNext]_vars

\* events that are only logged or skipped, between media events
LoggedNext ==
    \/ \E t \in BagToSet(createTasks), ok \in BOOLEAN : CreateConversationResume(t, ok)
    \/ \E t \in BagToSet(endTasks) : EndConversationResume(t)
    \/ \E cs \in CallSids : Connection(cs)
    \/ OpenAIOpen
    \/ OpenAIClosed
    \/ ExotelClosed
    \/ ExotelMedia(mediaIn + 1)
    \/ \E kind \in {"error", "session.created", "no.such.type"} : OpenAILogged(kind)
    \/ \E kind \in {"connected", "no.such.event"} : ExotelLogged(kind)

SpecLogged == InitAudio /\ [][LoggedNext]_vars

\* transcripts of both roles, empty and not, with the store answering late
TranscriptNext ==
    \/ \E t \in BagToSet(createTasks), ok \in BOOLEAN : CreateConversationResume(t, ok)
    \/ \E t \in BagToSet(endTasks) : EndConversationResume(t)
    \/ \E cs \in CallSids : Connection(cs)
    \/ OpenAIOpen
    \/ OpenAIClosed
    \/ ExotelClosed
    \/ \E role \in {"user", "assistant"},
          content \in {"", "transcript " \o ToString(Len(transcriptsIn) + 1)} :
          Transcript(role, content)
    \/ MessagePersisted

SpecTranscript == InitAudio /\ [][TranscriptNext]_vars

\* graceful shutdown with phone and web conversations registered
ShutdownNext ==
    \/ \E cs \in CallSids : IncomingCall(cs)
    \/ \E sid \in SessionIds : WebSession(sid)
    \/ \E t \in BagToSet(createTasks), ok \in BOOLEAN : CreateConversationResume(t, ok)
    \/ \E t \in BagToSet(endTasks) : EndConversationResume(t)
    \/ \E cs \in CallSids : Connection(cs)
    \/ OpenAIOpen
    \/ OpenAIClosed
    \/ ExotelClosed
    \/ Sigterm
    \/ \E id \in shutdown.todo : ShutdownStep(id)

SpecShutdown == InitAudio /\ [][ShutdownNext]_vars

\* one web-voice proxy pair
ProxyNext ==
    \/ WebVoiceConnection
    \/ ProxyOpenAIOpen
    \/ ProxyClientMessage
    \/ ProxyOpenAIMessage
    \/ ProxyClientClosed
    \/ ProxyOpenAIClosed
    \/ ProxyOpenAIError

SpecProxy == InitAudio /\ [][ProxyNext]_vars

\* audio in both directions around one function call that waits for the store
RelayNext ==
    \/ \E t \in BagToSet(createTasks), ok \in BOOLEAN : CreateConversationResume(t, ok)
    \/ \E t \in BagToSet(endTasks) : EndConversationResume(t)
    \/ \E cs \in CallSids : Connection(cs)
    \/ OpenAIOpen
    \/ OpenAIClosed
    \/ ExotelClosed
    \/ ExotelStart("S1", FALSE, UNDEF, UNDEF)
    \/ ExotelMedia(mediaIn + 1)
    \/ AudioDelta(deltasIn + 1)
    \/ fcalls = <<>> /\ FunctionCallArgumentsDone("search_doctors", "")
    \/ \E id \in DOMAIN fcalls : DispatchResume(id)

SpecRelay == InitAudio /\ [][RelayNext]_vars

\* records that nothing ends: registrations, a bridge whose sockets stay open,
\* the clock and the sweep timer.  The event loop runs a due timer and answers
\* of the store are delivered, hence the weak fairness of these steps.
SweepNext ==
    \/ Tick(StaleMinutes + 1)
    \/ \E cs \in CallSids : IncomingCall(cs)
    \/ \E sid \in SessionIds : WebSession(sid)
    \/ \E t \in BagToSet(createTasks), ok \in BOOLEAN : CreateConversationResume(t, ok)
    \/ \E t \in BagToSet(endTasks) : EndConversationResume(t)
    \/ \E cs \in CallSids \cup {NULL} : Connection(cs)
    \/ OpenAIOpen
    \/ SweepTimer

SpecSweep ==
    /\ InitAudio
    /\ [][SweepNext]_vars
    /\ WF_vars(Tick(StaleMinutes + 1))
    /\ WF_vars(SweepTimer)

\* ------------------------------------------------------------ properties
EndsBy(c, origins) == {j \in DOMAIN c.ends : c.ends[j].by \in origins}

EndedWrites(c, origins) == {j \in EndsBy(c, origins) : c.ends[j].write}

\* no handler is suspended and no socket is connecting or closing
Quiescent ==
    /\ createTasks = EmptyBag
    /\ endTasks = EmptyBag
    /\ cleanupDone = cleanupStarted
    /\ openaiWs \notin {"CONNECTING", "CLOSING"}
    /\ exotelWs # "CLOSING"
    /\ \A i \in DOMAIN fcalls : fcalls[i].pc \in {"done", "thrown"}

\* positions of the function_call_output frames that carry call_id id
OutputFrames(id) ==
    {j \in DOMAIN sentToOpenAI :
        sentToOpenAI[j].item = "function_call_output" /\ sentToOpenAI[j].call_id = id}

FramesOfType(type) == {j \in DOMAIN sentToOpenAI : sentToOpenAI[j].type = type}

\* C1: when both sockets of a bridge close, in either order and also when the
\* second close arrives while the first cleanup() waits for the store, exactly
\* one 'ended' write is issued for the record: the cleanups never issue two.
C1_OneEndedWritePerTeardown ==
    \A i \in DOMAIN convs : Cardinality(EndedWrites(convs[i], {"cleanup"})) <= 1

\* C2: in a quiescent state of a bridge no socket is CLOSED while the other is
\* still OPEN, in either direction.
C2_NoHalfOpenBridge ==
    (phase = "ready" /\ Quiescent) =>
        /\ (openaiWs = "CLOSED" => exotelWs # "OPEN")
        /\ (exotelWs = "CLOSED" => openaiWs # "OPEN")

\* C3: Conversation.end is invoked at most once on any record, whatever the
\* interleaving of stop events, socket closes, webhooks, the cancel route and
\* the staleness sweep.
C3_EndedAtMostOnce ==
    \A i \in DOMAIN convs : Len(convs[i].ends) <= 1

\* C4: of two stop events for the same call, the second delivered while the
\* first waits for the store, only the first ends the conversation.
C4_SecondStopIsNoOp ==
    \A i \in DOMAIN convs : Cardinality(EndsBy(convs[i], {"stop"})) <= 1

\* C5: every media frame sent to the telephony socket carries a non-empty
\* stream identifier, the one known when its delta arrived, and was sent on an
\* OPEN socket; a delta that arrived without an identifier, or while the
\* telephony socket was not OPEN, is never sent; no delta is sent twice.
C5_NoOrphanedSends ==
    /\ \A j \in DOMAIN sentToExotel :
         /\ Truthy(sentToExotel[j].streamSid)
         /\ \E a \in DOMAIN deltaArrivals :
              /\ deltaArrivals[a].delta = sentToExotel[j].payload
              /\ deltaArrivals[a].streamSid = sentToExotel[j].streamSid
              /\ deltaArrivals[a].rs = "OPEN"
    /\ \A j, k \in DOMAIN sentToExotel :
         sentToExotel[j].payload = sentToExotel[k].payload => j = k
    /\ \A a \in DOMAIN deltaArrivals :
         (~Truthy(deltaArrivals[a].streamSid) \/ deltaArrivals[a].rs # "OPEN") =>
            \A j \in DOMAIN sentToExotel : sentToExotel[j].payload # deltaArrivals[a].delta

\* C5 witness: one delta was dropped for want of an identifier and a later one was sent
C5_Witness ==
    /\ \E a \in DOMAIN deltaArrivals :
         deltaArrivals[a].delta # 0 /\ ~Truthy(deltaArrivals[a].streamSid)
    /\ \E j \in DOMAIN sentToExotel : sentToExotel[j].payload # 0

\* C6: a media chunk is forwarded, as one input_audio_buffer.append with the
\* same payload, only if the model socket was open when it arrived; a chunk
\* that arrived otherwise is never sent; nothing is sent on a socket that is
\* not OPEN.
C6_MediaForwardedOnlyWhenOpen ==
    /\ \A j \in DOMAIN sentToOpenAI : sentToOpenAI[j].rs = "OPEN"
    /\ \A j \in FramesOfType("input_audio_buffer.append") :
         \E a \in DOMAIN mediaArrivals :
            /\ mediaArrivals[a].payload = sentToOpenAI[j].audio
            /\ mediaArrivals[a].payload # 0
            /\ mediaArrivals[a].connected
            /\ mediaArrivals[a].rs = "OPEN"
    /\ \A j, k \in FramesOfType("input_audio_buffer.append") :
         sentToOpenAI[j].audio = sentToOpenAI[k].audio => j = k
    /\ \A a \in DOMAIN mediaArrivals :
         mediaArrivals[a].rs # "OPEN" =>
            \A j \in FramesOfType("input_audio_buffer.append") :
               sentToOpenAI[j].audio # mediaArrivals[a].payload

\* C6 witness: a chunk arrived while the model socket was closing with
\* isConnected still true and was dropped; another chunk was forwarded
C6_Witness ==
    /\ \E a \in DOMAIN mediaArrivals :
         /\ mediaArrivals[a].payload # 0
         /\ mediaArrivals[a].connected
         /\ mediaArrivals[a].rs = "CLOSING"
    /\ FramesOfType("input_audio_buffer.append") # {}

\* C7: once the teardown of a bridge has completed, the record the bridge
\* holds is no longer in the registry.
C7_TeardownReleasesRegistry ==
    (cleanupStarted > 0 /\ cleanupDone = cleanupStarted) => ~Registered(conversation)

\* C8: a function call whose arguments do not parse is dispatched with an empty
\* argument set and answered with a function result and a response request.
C8_MalformedArgumentsDefaulted ==
    \A i \in DOMAIN fcalls :
        (~JSONParses(ArgsOrDefault(fcalls[i].args)) /\ openaiWs = "OPEN") =>
            /\ fcalls[i].pc # "thrown"
            /\ (fcalls[i].pc = "done" =>
                  \E j \in OutputFrames(i) :
                     j + 1 \in DOMAIN sentToOpenAI /\ sentToOpenAI[j + 1].type = "response.create")

\* C9: a function call with parseable arguments that has been handled while
\* the model socket stayed open was answered by exactly one function_call_output
\* with its call_id, directly followed by a response.create; besides the
\* greeting's, there is one response.create per function result.
C9_OneResultThenResponse ==
    /\ \A i \in DOMAIN fcalls :
         (/\ JSONParses(ArgsOrDefault(fcalls[i].args))
          /\ fcalls[i].pc \in {"done", "thrown"}
          /\ openaiWs = "OPEN") =>
            /\ Cardinality(OutputFrames(i)) = 1
            /\ \A j \in OutputFrames(i) :
                 j + 1 \in DOMAIN sentToOpenAI /\ sentToOpenAI[j + 1].type = "response.create"
    /\ openaiWs = "OPEN" =>
         Cardinality(FramesOfType("response.create")) =
            1 + Cardinality({j \in DOMAIN sentToOpenAI : sentToOpenAI[j].item = "function_call_output"})

\* C9 witness: a transfer failed and the call was still answered on the open socket
C9_Witness ==
    /\ openaiWs = "OPEN"
    /\ \E i \in DOMAIN fcalls :
         /\ fcalls[i].pc = "done"
         /\ fcalls[i].transfer = "failed"
         /\ OutputFrames(i) # {}
    /\ \E i \in DOMAIN fcalls :
         fcalls[i].pc = "done" /\ ~KnownFunction(fcalls[i].name) /\ OutputFrames(i) # {}

\* C10: once the dispatch result carries TRANSFER_EMERGENCY or TRANSFER_OPERATOR
\* the call and the side-effect are logged in the record and the transfer is
\* started; the function result is sent only after the transfer has succeeded,
\* failed or been skipped.
C10_TransferBeforeResult ==
    \A i \in DOMAIN fcalls :
        fcalls[i].action # "NONE" =>
            /\ \E n \in DOMAIN convs[conversation].functionCalls :
                 convs[conversation].functionCalls[n] = i
            /\ fcalls[i].action = "TRANSFER_EMERGENCY" =>
                 \E n \in DOMAIN convs[conversation].emergencies :
                    convs[conversation].emergencies[n] = i
            /\ fcalls[i].action = "TRANSFER_OPERATOR" =>
                 \E n \in DOMAIN convs[conversation].transfers :
                    convs[conversation].transfers[n] = i
            /\ fcalls[i].transfer # "none"
            /\ OutputFrames(i) # {} => fcalls[i].transfer \in {"succeeded", "failed", "skipped"}

\* C10 witness: one transfer is still pending with no result sent, another has
\* completed and its result has been sent
C10_Witness ==
    /\ \E i \in DOMAIN fcalls : fcalls[i].transfer = "pending" /\ OutputFrames(i) = {}
    /\ \E i \in DOMAIN fcalls :
         fcalls[i].transfer \in {"succeeded", "failed"} /\ OutputFrames(i) # {}

\* C11: once a stop event has been handled the conversation has been ended
\* with status 'completed', the model socket is no longer connecting or open,
\* and no media chunk that arrived after the stop is forwarded to the model.
C11_StopBeginsTeardown ==
    stops > 0 =>
        /\ conversation # 0 /\ Truthy(callSid) =>
              \E j \in EndsBy(convs[conversation], {"stop"}) :
                 convs[conversation].ends[j].status = "completed"
        /\ openaiWs \notin {"CONNECTING", "OPEN"}
        /\ \A a \in DOMAIN mediaArrivals :
              mediaArrivals[a].stops > 0 =>
                 \A j \in FramesOfType("input_audio_buffer.append") :
                    sentToOpenAI[j].audio # mediaArrivals[a].payload

\* a step in which the management call `call` returns a value
Returns(call) == returned'.n # returned.n /\ returned'.call = call

\* the keys whose entry this step removes
RemovedKeys == {k \in Keys : activeConversations[k] # 0 /\ activeConversations'[k] = 0}

\* C12: endConversation on an identifier without registry entry returns null,
\* invokes no Conversation.end, starts no store write, and leaves every
\* registry entry as it was.
C12_UnknownIdentifierIsNoOp ==
    [][(Returns("endConversation") /\ getConversation(returned'.identifier) = 0) =>
          /\ returned'.value = NULL
          /\ activeConversations' = activeConversations
          /\ convs' = convs
          /\ endTasks' = endTasks]_vars

\* C12 witness: endConversation has answered null for an unknown identifier
\* while another record was registered
C12_Witness ==
    /\ returned.call = "endConversation"
    /\ returned.value = NULL
    /\ getConversation(returned.identifier) = 0
    /\ \E k \in Keys : activeConversations[k] # 0

\* C13: a sweep removes exactly the entries whose record started strictly more
\* than 30 minutes ago and ends each of those records once more, with status
\* 'timeout'; every other entry and record is left as it was; the value
\* returned is the number of entries removed.
C13_SweepRemovesExactlyStale ==
    [][Returns("cleanupStaleConversations") =>
          /\ \A k \in Keys :
                LET i == activeConversations[k] IN
                IF i # 0 /\ now - convs[i].startTime > StaleMinutes
                  THEN /\ activeConversations'[k] = 0
                       /\ Len(convs'[i].ends) = Len(convs[i].ends) + 1
                       /\ convs'[i].ends[Len(convs'[i].ends)].status = "timeout"
                  ELSE activeConversations'[k] = i
          /\ \A i \in DOMAIN convs :
                (\A k \in RemovedKeys : activeConversations[k] # i) => convs'[i] = convs[i]
          /\ returned'.cleaned = Cardinality(RemovedKeys)]_vars

\* C13 witness: a sweep has removed a record older than 30 minutes, ended with
\* 'timeout', and has left a younger record registered and not ended
C13_Witness ==
    /\ returned.call = "cleanupStaleConversations"
    /\ returned.cleaned = 1
    /\ \E i \in DOMAIN convs :
         /\ ~Registered(i)
         /\ now - convs[i].startTime > StaleMinutes
         /\ \E j \in DOMAIN convs[i].ends : convs[i].ends[j].status = "timeout"
    /\ \E i \in DOMAIN convs :
         /\ Registered(i)
         /\ now - convs[i].startTime <= StaleMinutes
         /\ convs[i].ends = <<>>

\* C14: when an entry is removed from the registry no store write for the end
\* of its conversation is still in flight: the write has been answered before
\* the delete.
C14_PersistedBeforeRemoval ==
    [][\A k \in RemovedKeys : \A t \in BagToSet(endTasks') : t.key # k]_vars

\* C15: every registry entry is filed under the call identifier of its record
\* when the record has one, otherwise under the record's session identifier;
\* no record is reachable under two keys, and a record with a call identifier
\* is not found under its session identifier.
C15_OneKeyPerRecord ==
    /\ \A k \in Keys :
         LET i == activeConversations[k] IN
         i # 0 =>
            /\ k = IF Truthy(convs[i].callSid) THEN convs[i].callSid ELSE convs[i].sessionId
            /\ Truthy(convs[i].callSid) => getConversation(convs[i].sessionId) # i
    /\ \A k1, k2 \in Keys :
         (activeConversations[k1] # 0 /\ activeConversations[k1] = activeConversations[k2]) => k1 = k2

\* C16: the function router always returns an object with a non-empty
\* message, for every declared function under every outcome of the store and
\* for every other function name; for a name that is not declared the result
\* has success = false.
C16_RouterAlwaysAnswers ==
    request.fn = "handleFunctionCall" =>
        /\ result.kind = "object"
        /\ Truthy(result.message)
        /\ request.name \notin DeclaredFunctions => result.success = "false"

\* C17: the emergency handler always returns action TRANSFER_EMERGENCY and a
\* number of the emergency-contacts table: the cardiac or trauma number for
\* these two types, the main number for every other type, for a missing type
\* and when the handler fails internally.
C17_EmergencyAlwaysHasNumber ==
    (request.fn = "handleFunctionCall" /\ request.name = "emergency_protocol") =>
        /\ result.action = "TRANSFER_EMERGENCY"
        /\ Truthy(result.transferTo)
        /\ result.transferTo =
             IF request.args.emergencyType = "cardiac" THEN EMERGENCY_CONTACTS.cardiac
             ELSE IF request.args.emergencyType = "trauma" THEN EMERGENCY_CONTACTS.trauma
             ELSE EMERGENCY_CONTACTS.main

\* C18: the department resolution never returns an empty or missing number,
\* whatever the department and the outcome of the directory lookup; a directory
\* row wins, then a keyword match, then the main number.
C18_ResolutionNeverEmpty ==
    request.fn = "getDepartmentContactNumber" =>
        /\ Truthy(result.value)
        /\ result.path = "directory" <=> (dbEnabled /\ request.store \in {"found", "partial"})
        /\ result.path \in {"main", "catch"} => result.value = EMERGENCY_CONTACTS.main

\* C19: when the provider credentials or the public URL are missing, a function
\* call whose result asks for a transfer issues no call-control request and
\* throws nothing: the transfer is skipped, the bridge and the audio relay are
\* left as they were, and the function result and the response request are
\* sent on the open model socket in the same step.
C19_UnconfiguredTransferIsSkipped ==
    [][\A i \in DOMAIN fcalls' :
          (/\ ~(exotelCredentials /\ publicUrl)
           /\ fcalls'[i].action # "NONE"
           /\ (i \notin DOMAIN fcalls \/ fcalls[i].action = "NONE")) =>
             /\ transferLog' = transferLog
             /\ fcalls'[i].pc = "done"
             /\ fcalls'[i].transfer = "skipped"
             /\ bridgeVars' = bridgeVars
             /\ sentToExotel' = sentToExotel
             /\ openaiWs = "OPEN" =>
                  sentToOpenAI' = sentToOpenAI \o
                     <<Frame("conversation.item.create", "function_call_output", 0, i, "OPEN"),
                       Frame("response.create", "", 0, 0, "OPEN")>>]_vars

\* C19 witness: with credentials but no public URL, an emergency transfer and an
\* operator transfer were skipped and both calls were answered
C19_Witness ==
    /\ exotelCredentials /\ ~publicUrl
    /\ transferLog = <<>>
    /\ \E i, j \in DOMAIN fcalls :
         /\ fcalls[i].action = "TRANSFER_EMERGENCY"
         /\ fcalls[j].action = "TRANSFER_OPERATOR"
         /\ fcalls[i].transfer = "skipped" /\ fcalls[j].transfer = "skipped"
         /\ OutputFrames(i) # {} /\ OutputFrames(j) # {}

\* C20: a handler that fails internally answers with success = false and a
\* non-empty message.
C20_InternalFailureIsReported ==
    (request.fn = "handleFunctionCall" /\ result.path = "catch") =>
        /\ result.success = "false"
        /\ Truthy(result.message)

\* C21: when initialize() fails the acceptor has closed the telephony socket
\* with code 1011, and a telephony socket that is open has a bridge whose
\* initialize() is running or has succeeded
C21_FailedInitClosesTelephony ==
    /\ phase = "failed" =>
          /\ exotelWs \in {"CLOSING", "CLOSED"}
          /\ closeCode = 1011
          /\ openaiWs = "NONE"
    /\ exotelWs = "OPEN" => phase \in {"initializing", "ready"}

\* initialize() failed after it had waited for the store to create the record
C21_Witness ==
    /\ phase = "failed"
    /\ conversation # 0
    /\ convs[conversation].id # 0
    /\ exotelWs = "CLOSING"

\* C26: every start event delivered on the accepted telephony socket is handled
\* by the bridge: streamSid is the identifier of the last start delivered
C26_EveryStartIsObserved ==
    startDelivered # "none" => streamSid = startDelivered

\* C27: a step that removes a key from the registry removes a record that has
\* been ended; endConversation never removes a record registered while it waited
C27_EndRemovesOnlyTheEndedRecord ==
    [][\A k \in Keys :
          (activeConversations[k] # 0 /\ activeConversations'[k] = 0) =>
             convs'[activeConversations[k]].ends # <<>>]_vars

\* C28: no input_audio_buffer.append carries the payload of a media event that
\* arrived while streamSid was still unset
C28_MediaBeforeStartIsDropped ==
    \A i \in DOMAIN mediaArrivals :
       mediaArrivals[i].streamSid = NULL =>
          \A j \in DOMAIN sentToOpenAI :
             ~(/\ sentToOpenAI[j].type = "input_audio_buffer.append"
               /\ sentToOpenAI[j].audio = mediaArrivals[i].payload)

\* C29: the step in which the sweep ends the record of a bridge whose sockets
\* are both open leaves neither socket open
C29_SweepEndsTheBridge ==
    [][(/\ conversation # 0
        /\ exotelWs = "OPEN" /\ openaiWs = "OPEN"
        /\ EndsBy(convs[conversation], {"sweep"}) = {}
        /\ EndsBy(convs'[conversation], {"sweep"}) # {}) =>
          (exotelWs' # "OPEN" /\ openaiWs' # "OPEN")]_vars

\* C24: when a function call that arrived before the teardown of the bridge and
\* was awaiting its dispatch or its transfer goes on after it, nothing is appended to the
\* logs of the record, no transfer request is issued and no frame is sent
C24_ResultAfterTeardownIsDiscarded ==
    [][\A id \in DOMAIN fcalls :
          (/\ TornDown
           /\ ~fcalls[id].tornDown
           /\ fcalls[id].pc \in {"dispatch", "transfer"}
           /\ fcalls'[id].pc # fcalls[id].pc) =>
             /\ convs'[conversation].functionCalls = convs[conversation].functionCalls
             /\ convs'[conversation].transfers = convs[conversation].transfers
             /\ convs'[conversation].emergencies = convs[conversation].emergencies
             /\ transferLog' = transferLog
             /\ sentToOpenAI' = sentToOpenAI]_vars

\* C25: function-call events are handled in arrival order: a call has logged,
\* requested a transfer or sent its result only when every call that arrived
\* before it on the model socket has run to its end
C25_EventsHandledInArrivalOrder ==
    \A i, j \in DOMAIN fcalls :
       (i < j /\ fcalls[j].pc \in {"transfer", "done"}) => fcalls[i].pc \in {"done", "thrown"}

\* C30: once the model socket has opened, the first three frames sent to the
\* model are session.update, the opening user item and response.create, none of
\* the three is sent again, and every audio append comes after them
C30_OpeningFramesFirstAndOnce ==
    /\ (isConnected \/ sentToOpenAI # <<>>) =>
          /\ Len(sentToOpenAI) >= 3
          /\ sentToOpenAI[1].type = "session.update"
          /\ sentToOpenAI[2].type = "conversation.item.create"
          /\ sentToOpenAI[2].item = "message"
          /\ sentToOpenAI[3].type = "response.create"
    /\ \A j \in DOMAIN sentToOpenAI :
          j > 3 => sentToOpenAI[j].type = "input_audio_buffer.append"

\* telephony audio was forwarded after the three opening frames
C30_Witness ==
    /\ Len(sentToOpenAI) >= 4
    /\ sentToOpenAI[4].type = "input_audio_buffer.append"
    /\ sentToOpenAI[4].audio # 0

\* C23: every registered record that can grow older than the threshold within
\* the modelled time is eventually not registered, with no socket closing and
\* no end request
C23_EveryRecordIsEventuallyRemoved ==
    \A i \in 1..MaxConvs :
       (i \in DOMAIN convs /\ Registered(i) /\ convs[i].startTime + StaleMinutes < MaxNow)
          ~> ~(i \in DOMAIN convs /\ Registered(i))

\* the sweep has removed the record of a bridge whose sockets are both open
C23_Witness ==
    /\ conversation # 0
    /\ EndsBy(convs[conversation], {"sweep"}) # {}
    /\ ~Registered(conversation)
    /\ openaiWs = "OPEN"
    /\ exotelWs = "OPEN"

SentPayloads == [j \in DOMAIN sentToExotel |-> sentToExotel[j].payload]

\* the audio deltas received from the model, in arrival order
ReceivedDeltas == [a \in DOMAIN deltaArrivals |-> deltaArrivals[a].delta]

\* p is obtained from q by deleting elements
IsSubsequence(p, q) ==
    \E f \in [DOMAIN p -> DOMAIN q] :
       /\ \A j, k \in DOMAIN p : j < k => f[j] < f[k]
       /\ \A j \in DOMAIN p : q[f[j]] = p[j]

\* C31: the payloads sent to the telephony socket are a subsequence of the
\* audio deltas received from the model: arrival order, each at most once
C31_AudioOutInArrivalOrder == IsSubsequence(SentPayloads, ReceivedDeltas)

\* a chunk was dropped for want of a stream identifier and a later one, which
\* arrived while a function call was suspended, was forwarded
C31_Witness ==
    /\ Len(sentToExotel) >= 1
    /\ Len(deltaArrivals) > Len(sentToExotel)
    /\ \E a \in DOMAIN deltaArrivals :
          /\ deltaArrivals[a].suspended
          /\ deltaArrivals[a].delta = sentToExotel[1].payload

C33_NoReturnFromClosed ==
    [][openaiWs = "CLOSED" =>
          /\ ~isConnected
          /\ ~isConnected'
          /\ openaiWs' = "CLOSED"
          /\ sentToOpenAI' = sentToOpenAI]_vars

\* after the close a media chunk arrived and a suspended function call completed;
\* neither produced a frame
C33_Witness ==
    /\ openaiWs = "CLOSED"
    /\ \E a \in DOMAIN mediaArrivals : mediaArrivals[a].rs = "CLOSED"
    /\ \E id \in DOMAIN fcalls : fcalls[id].pc = "done"
    /\ \A j \in DOMAIN sentToOpenAI : sentToOpenAI[j].item # "function_call_output"

\* the call-control requests issued for function call id
RequestsOf(id) == {j \in DOMAIN transferLog : transferLog[j].call = id}

\* C34: at most one call-control request is issued per function call; when the
\* request fails, the handler goes on to its end: no socket changes state, no
\* second request is issued, and the function result and the response request
\* are handed to the model socket, which sends them if it is open
C34_FailedTransferIsContained ==
    [][\A id \in DOMAIN fcalls :
          /\ Cardinality(RequestsOf(id)') <= 1
          /\ (fcalls[id].transfer = "pending" /\ fcalls'[id].transfer = "failed") =>
                /\ fcalls'[id].pc = "done"
                /\ openaiWs' = openaiWs
                /\ exotelWs' = exotelWs
                /\ transferLog' = transferLog
                /\ sentToOpenAI' = SendFunctionResult(sentToOpenAI, openaiWs, id)
                /\ openaiWs = "OPEN" => Len(sentToOpenAI') = Len(sentToOpenAI) + 2]_vars

\* a transfer request failed with both sockets open and the result was sent
C34_Witness ==
    /\ openaiWs = "OPEN"
    /\ exotelWs = "OPEN"
    /\ \E id \in DOMAIN fcalls :
          /\ fcalls[id].transfer = "failed"
          /\ fcalls[id].pc = "done"
          /\ Cardinality(RequestsOf(id)) = 1
          /\ \E j \in DOMAIN sentToOpenAI :
                sentToOpenAI[j].item = "function_call_output" /\ sentToOpenAI[j].call_id = id

\* the step handles a start event
StartHandled == startParams' # startParams

\* C35: a start event sets streamSid; it fills callSid and phoneNumber from the
\* stream's parameters exactly when they are not known and the parameter is
\* there, never overwrites a known one, and changes nothing else
C35_StartFillsOnlyUnknown ==
    [][StartHandled =>
          /\ streamSid' = startParams'.sid
          /\ Truthy(callSid) => callSid' = callSid
          /\ Truthy(phoneNumber) => phoneNumber' = phoneNumber
          /\ (~Truthy(callSid) /\ startParams'.hasParams /\ Truthy(startParams'.callSid)) =>
                callSid' = startParams'.callSid
          /\ (~Truthy(phoneNumber) /\ startParams'.hasParams
                 /\ Truthy(startParams'.phoneNumber)) =>
                phoneNumber' = startParams'.phoneNumber
          /\ callSid' \in {callSid, startParams'.callSid}
          /\ phoneNumber' \in {phoneNumber, startParams'.phoneNumber}
          /\ UNCHANGED <<registryVars, phase, conversation, isConnected, openaiWs, exotelWs,
                         wireVars, fnVars, countVars>>]_vars

\* a start event with both parameters reached a bridge that knew its call
\* identifier but not the caller's phone: only the phone was filled in
C35_Witness ==
    /\ startParams.sid # "none"
    /\ startParams.hasParams
    /\ startParams.callSid = OtherCallSid
    /\ callSid \in CallSids
    /\ requestPhone = NULL
    /\ phoneNumber = startParams.phoneNumber
    /\ phoneNumber \in Phones

\* C36: the step that handles a model error event or an event of a kind no
\* case names changes nothing of the bridge, the record or the registry and
\* sends nothing
C36_LoggedEventsChangeNothing ==
    [][lastLogged' # lastLogged =>
          UNCHANGED <<registryVars, bridgeVars, wireVars, fnVars, countVars, phoneNumber>>]_vars

\* a media chunk that arrived after a model error event was forwarded
C36_Witness ==
    /\ lastLogged.kind = "error"
    /\ mediaIn > lastLogged.mediaIn
    /\ \E j \in FramesOfType("input_audio_buffer.append") : sentToOpenAI[j].audio = mediaIn
    /\ openaiWs = "OPEN"
    /\ exotelWs = "OPEN"

\* the non-empty transcripts delivered by the model socket, in delivery order
NonEmptyTranscript(e) == e.content # ""

DeliveredTranscripts ==
    LET kept == SelectSeq(transcriptsIn, NonEmptyTranscript)
    IN [j \in DOMAIN kept |-> [role |-> kept[j].role, content |-> kept[j].content]]

\* C37: the messages of the bridge's record are the non-empty transcripts
\* delivered by the model socket, in delivery order, each once
C37_MessagesInArrivalOrder ==
    conversation # 0 => convs[conversation].messages = DeliveredTranscripts

\* the second of two logged transcripts arrived while the write of the first was pending
C37_Witness ==
    /\ conversation # 0
    /\ Len(convs[conversation].messages) = 2
    /\ \E j \in DOMAIN transcriptsIn :
          /\ transcriptsIn[j].pending > 0
          /\ transcriptsIn[j].content = convs[conversation].messages[2].content
    /\ convs[conversation].messages[1].role # convs[conversation].messages[2].role

\* C38: when the loop of the SIGTERM handler has ended, every conversation that
\* was registered when it began has been ended with status server_shutdown and
\* is registered no more
C38_ShutdownEndsEveryConversation ==
    ShutdownLoopDone =>
       \A i \in shutdown.listed :
          /\ ~Registered(i)
          /\ \E j \in DOMAIN convs[i].ends : convs[i].ends[j].status = "server_shutdown"

\* C39: a message of the proxy is forwarded only when its destination is OPEN,
\* and once one socket of the pair has closed the other one is not open
C39_ProxyNeverHalfOpen ==
    /\ \A j \in DOMAIN proxy.messages :
          proxy.messages[j].forwarded => proxy.messages[j].rs = "OPEN"
    /\ proxy.clientWs = "CLOSED" => proxy.openaiWs # "OPEN"
    /\ proxy.openaiWs = "CLOSED" => proxy.clientWs # "OPEN"

====
